---- MODULE Spec2Model ----
(***************************************************************************)
(* Model of the indel error model (IndelErrorModel, AdaptiveIndelErrorModel)*)
(* and of the gVCF block accumulator (gvcf_block_site_record).             *)
(*                                                                         *)
(* Numbers.  The code computes in double precision.  Here a log error rate *)
(* is an integer number of micro-nats (ln(r) * 10^6, rounded), and an      *)
(* error rate r is the record [ln |-> ln(r) in micro-nats]: std::exp takes *)
(* a log rate to a rate, and rates are ordered by their logarithms.  A     *)
(* division of doubles is the integer division of the numerators, so an    *)
(* interpolated value is exact up to one micro-nat.                        *)
(*                                                                         *)
(* assert() is taken as active: a failed assertion aborts the program.     *)
(***************************************************************************)
EXTENDS Integers, Sequences, FiniteSets, TLC

VARIABLES
    \* ---- IndelErrorModel: constructor inputs and the object ----
    modelName,              \* constructor argument
    modelFilename,          \* constructor argument ("" when no file is given)
    file,                   \* the parsed content of the parameter file
    status,                 \* "unbuilt" | "built" | "LogicException" | "assertFailed"
    _meta,                  \* IndelErrorModel::_meta (the name only)
    _errorRates,            \* IndelErrorModel::_errorRates
    _candidateErrorRates,   \* IndelErrorModel::_candidateErrorRates
    query,                  \* arguments of the getIndelErrorRate call in progress
    refToIndelErrorProb,    \* output argument of getIndelErrorRate
    indelToRefErrorProb,    \* output argument of getIndelErrorRate
    lookups,                \* the getRate calls the last getIndelErrorRate made
    \* ---- deserializeRateSet on its own ----
    loadInput,              \* the Json::Value handed to deserializeRateSet
    loadResult,             \* what deserializeRateSet returned
    \* ---- AdaptiveIndelErrorModel ----
    curve,                  \* the constructed AdaptiveIndelErrorModel
    curveOut,               \* errorRate(n) for the repeat counts evaluated so far
    \* ---- gvcf_block_site_record ----
    opt,                    \* gvcf_options given to the constructor
    frac_tol,
    abs_tol,
    count,
    pos,
    block_gqx,
    block_dpu,
    block_dpf,
    isBlockGqxDefined,
    _isNonRef,
    lastOp,                 \* the operation that led to this state
    prevCount               \* count before that operation

modelVars == <<modelName, modelFilename, file, status, _meta, _errorRates,
               _candidateErrorRates, query, refToIndelErrorProb,
               indelToRefErrorProb, lookups>>
loadVars  == <<loadInput, loadResult>>
curveVars == <<curve, curveOut>>
blockVars == <<opt, frac_tol, abs_tol, count, pos, block_gqx, block_dpu,
               block_dpf, isBlockGqxDefined, _isNonRef, lastOp, prevCount>>
vars == <<modelVars, loadVars, curveVars, blockVars>>

(***************************************************************************)
(* Bounds of the model.                                                    *)
(***************************************************************************)
MaxMotif == 2          \* largest MaxMotifLength a parameter file declares
MaxTract == 3          \* largest MaxTractLength a parameter file declares
MaxEntries == 2        \* most entries of a file's IndelModels list
MaxUnitLength == 2     \* largest repeatUnitLength of a queried allele
MaxQueryCount == 2     \* largest repeat count of a queried allele
PlateauProbe == 3      \* how far above a table's last entry lookups are probed
MaxHighRepeatCount == 5 \* largest highRepeatCount of a checked curve
MaxEvalCount == 7      \* largest repeat count a checked curve is evaluated at
MaxBlockCount == 3     \* most sites joined to one block
MaxPos == 3            \* largest site position

Min(a, b) == IF a <= b THEN a ELSE b
Max(a, b) == IF a >= b THEN a ELSE b
Abs(a) == IF a >= 0 THEN a ELSE -a

(***************************************************************************)
(* Rates and the rate table (IndelErrorRateSet).                           *)
(***************************************************************************)
\* std::exp: a log rate (micro-nats) to the rate
Exp(logRate) == [ln |-> logRate]

\* std::max on two rates
MaxRate(a, b) == IF a.ln >= b.ln THEN a ELSE b

INSERT == "INSERT"
DELETE == "DELETE"
OTHER_TYPE == "OTHER"
IndelTypes == {INSERT, DELETE, OTHER_TYPE}

\* a default-constructed IndelErrorRateSet
EmptyRateSet == [rates |-> {}, isFinalized |-> FALSE]

\* addRate: record one entry; a repeated key overwrites
AddRate(rs, p, n, insRate, delRate) ==
    [rs EXCEPT !.rates =
        {e \in rs.rates : ~(e.p = p /\ e.n = n)}
            \cup {[p |-> p, n |-> n, ins |-> insRate, del |-> delRate]}]

\* finalizeRates: the table is closed for lookups
FinalizeRates(rs) == [rs EXCEPT !.isFinalized = TRUE]

PatternSizes(rs) == {e.p : e \in rs.rates}
RepeatCounts(rs, p) == {e.n : e \in {x \in rs.rates : x.p = p}}
SetMax(S) == CHOOSE x \in S : \A y \in S : y <= x

\* the key getRate reads: pattern size and repeat count clamped to the table
ClampedSize(rs, p) == Min(p, SetMax(PatternSizes(rs)))
ClampedCount(rs, p, n) == Min(n, SetMax(RepeatCounts(rs, ClampedSize(rs, p))))

\* whether getRate(p, n, .) is within the table's contract
LookupDefined(rs, p, n) ==
    /\ rs.isFinalized
    /\ p >= 1 /\ n >= 1
    /\ PatternSizes(rs) # {}
    /\ RepeatCounts(rs, ClampedSize(rs, p)) # {}
    /\ \E e \in rs.rates : e.p = ClampedSize(rs, p) /\ e.n = ClampedCount(rs, p, n)

\* getRate
GetRate(rs, p, n, rateType) ==
    LET e == CHOOSE x \in rs.rates :
                 x.p = ClampedSize(rs, p) /\ x.n = ClampedCount(rs, p, n)
    IN  IF rateType = INSERT THEN e.ins ELSE e.del


\* folds addRate over a sequence of calls, in order
RECURSIVE AddRates(_, _, _)
AddRates(rs, calls, i) ==
    IF i > Len(calls) THEN rs
    ELSE AddRates(AddRate(rs, calls[i].p, calls[i].n, calls[i].ins, calls[i].del),
                  calls, i + 1)

(***************************************************************************)
(* AdaptiveIndelErrorModel.                                                *)
(***************************************************************************)
\* AdaptiveIndelErrorModel::_lowRepeatCount
LowRepeatCount == 2

\* the constructor
AdaptiveIndelErrorModel(repeatPatternSizeIn, highRepeatCountIn, lowLogParamsIn, highLogParamsIn) ==
    [_repeatPatternSize |-> repeatPatternSizeIn,
     _highRepeatCount   |-> highRepeatCountIn,
     _lowLogParams      |-> lowLogParamsIn,
     _highLogParams     |-> highLogParamsIn]

\* linearFit with the intercept of the wrong endpoint
LinearFit_WrongIntercept(x, x1, y1, x2, y2) ==
    ((y2 - y1) * x + (x2 * y2 - x1 * y1)) \div (x2 - x1)

\* linearFit: the line through (x1,y1) and (x2,y2) at x
LinearFit(x, x1, y1, x2, y2) ==
    ((y2 - y1) * x + (x2 * y1 - x1 * y2)) \div (x2 - x1)

\* errorRate
ErrorRate(m, repeatCount) ==
    IF repeatCount >= m._highRepeatCount
    THEN Exp(m._highLogParams.logErrorRate)
    ELSE Exp(LinearFit(repeatCount, LowRepeatCount, m._lowLogParams.logErrorRate,
                       m._highRepeatCount, m._highLogParams.logErrorRate))

(***************************************************************************)
(* The built-in models.                                                    *)
(***************************************************************************)
LogLowErrorRate == -9903488       \* std::log(5e-5)
LogHighErrorRate == -8111728      \* std::log(3e-4)
RepeatCountSwitchPoint == 15

\* one pass of the loop body of getLogLinearIndelErrorModel
LogLinearCall(repeatingPatternSize, patternRepeatCount) ==
    LET highErrorFracNum == Min(patternRepeatCount - 1, RepeatCountSwitchPoint)
        logErrorRate ==
            ((RepeatCountSwitchPoint - highErrorFracNum) * LogLowErrorRate
                + highErrorFracNum * LogHighErrorRate) \div RepeatCountSwitchPoint
        errorRate == Exp(IF repeatingPatternSize = 1 THEN logErrorRate ELSE LogLowErrorRate)
    IN  [p |-> repeatingPatternSize, n |-> patternRepeatCount,
         ins |-> errorRate, del |-> errorRate]

\* getLogLinearIndelErrorModel whose ramp stops one repeat count short
GetLogLinearIndelErrorModel_ShortRamp ==
    AddRates(EmptyRateSet,
             [n \in 1..RepeatCountSwitchPoint |-> LogLinearCall(1, n)], 1)

\* getLogLinearIndelErrorModel
GetLogLinearIndelErrorModel ==
    AddRates(EmptyRateSet,
             [n \in 1..(RepeatCountSwitchPoint + 1) |-> LogLinearCall(1, n)], 1)

LogNonStrRate == -4828314         \* log of nonStrRate(8e-3)
LogLowHpol == -5318520            \* std::log(4.9e-3)
LogLowDinuc == -4605170           \* std::log(1.0e-2)
LogHighHpol == -3101093           \* std::log(4.5e-2)
LogHighDinuc == -4017384          \* std::log(1.8e-2)
SwitchPointHpol == 16
SwitchPointDinuc == 9

nonStrRate == Exp(LogNonStrRate)
repeatingPatternSizeVector == <<1, 2>>
logLowErrorRateVector == <<LogLowHpol, LogLowDinuc>>
logHighErrorRateVector == <<LogHighHpol, LogHighDinuc>>
repeatCountSwitchPointVector == <<SwitchPointHpol, SwitchPointDinuc>>

\* the inner loop's bound written '<' for '<='
LastCurveCount_Exclusive(repeatCountSwitchPoint) == repeatCountSwitchPoint - 1

\* the last repeat count of the inner loop of getSimplifiedAdaptiveParameters
\* (patternRepeatCount <= repeatCountSwitchPoint)
LastCurveCount(repeatCountSwitchPoint) == repeatCountSwitchPoint

\* the addRate calls of one pass of the outer loop of getSimplifiedAdaptiveParameters
AdaptiveCalls(ix) ==
    LET repeatingPatternSize == repeatingPatternSizeVector[ix]
        repeatCountSwitchPoint == repeatCountSwitchPointVector[ix]
        indelErrorModel ==
            AdaptiveIndelErrorModel(repeatingPatternSize, repeatCountSwitchPoint,
                                    [logErrorRate |-> logLowErrorRateVector[ix]],
                                    [logErrorRate |-> logHighErrorRateVector[ix]])
    IN  [n \in 1..LastCurveCount(repeatCountSwitchPoint) |->
            IF n = 1
            THEN [p |-> repeatingPatternSize, n |-> 1,
                  ins |-> nonStrRate, del |-> nonStrRate]
            ELSE [p |-> repeatingPatternSize, n |-> n,
                  ins |-> ErrorRate(indelErrorModel, n),
                  del |-> ErrorRate(indelErrorModel, n)]]

RECURSIVE AdaptiveLoop(_, _)
AdaptiveLoop(rs, ix) ==
    IF ix > Len(repeatingPatternSizeVector) THEN rs
    ELSE AdaptiveLoop(AddRates(rs, AdaptiveCalls(ix), 1), ix + 1)

\* getSimplifiedAdaptiveParameters
GetSimplifiedAdaptiveParameters == AdaptiveLoop(EmptyRateSet, 1)

(***************************************************************************)
(* The parameter file.  A cell is the pair <<deletion rate, insertion      *)
(* rate>>: cell[1] here is cell[0] of the code.  Every cell of a file      *)
(* holds its own two rates, so that a misplaced or swapped rate shows.     *)
(***************************************************************************)
FileRate(variant, p, t, k) ==
    Exp(-(variant * 1000000 + p * 100000 + t * 1000 + k))

FileCell(variant, p, t) == <<FileRate(variant, p, t, 1), FileRate(variant, p, t, 2)>>

\* one entry of "IndelModels"; lens[p] is the length of the p-th list of "Model"
FileEntry(name, variant, maxMotifLength, maxTractLength, lens) ==
    [name           |-> name,
     MaxMotifLength |-> maxMotifLength,
     MaxTractLength |-> maxTractLength,
     Model          |-> [p \in 1..Len(lens) |->
                            [t \in 1..lens[p] |-> FileCell(variant, p, t)]]]

\* the rates deserializeRateSet takes from a cell, with the two swapped
CellRates_Swapped(cell) == [del |-> cell[2], ins |-> cell[1]]

\* delete_error_prob(cell[0]), insert_error_prob(cell[1])
CellRates(cell) == [del |-> cell[1], ins |-> cell[2]]

\* the assertion on a list's length dropped
TractLengthOk_Unchecked(patternSize, maxTractLength) == TRUE

\* assert(pattern.size() <= maxTractLength)
TractLengthOk(patternSize, maxTractLength) == patternSize <= maxTractLength

\* assert(models.size() == maxRepeatingPatternSize)
MotifLengthOk(modelsSize, maxRepeatingPatternSize) == modelsSize = maxRepeatingPatternSize

\* deserializeRateSet ended by a failed assertion: nothing is returned
AbortedLoad == [ok |-> FALSE, rates |-> EmptyRateSet, cellsRead |-> <<>>]

\* the inner loop of deserializeRateSet, from tractLength on;
\* cellsRead lists the cells <<pattern size, tract length>> read so far
RECURSIVE TractLoop(_, _, _, _)
TractLoop(acc, repeatingPatternSize, pattern, tractLength) ==
    IF tractLength > Len(pattern) THEN acc
    ELSE IF (tractLength % repeatingPatternSize) # 0
    THEN TractLoop(acc, repeatingPatternSize, pattern, tractLength + 1)
    ELSE LET patternRepeatCount == tractLength \div repeatingPatternSize
             cell == CellRates(pattern[tractLength])
         IN  TractLoop(
                [acc EXCEPT
                    !.rates = AddRate(@, repeatingPatternSize, patternRepeatCount,
                                      cell.ins, cell.del),
                    !.cellsRead = Append(@, <<repeatingPatternSize, tractLength>>)],
                repeatingPatternSize, pattern, tractLength + 1)

\* the outer loop of deserializeRateSet, from repeatingPatternSize on
RECURSIVE PatternLoop(_, _, _, _, _)
PatternLoop(acc, models, repeatingPatternSize, maxRepeatingPatternSize, maxTractLength) ==
    IF repeatingPatternSize > maxRepeatingPatternSize THEN acc
    ELSE LET pattern == models[repeatingPatternSize]
         IN  IF ~TractLengthOk(Len(pattern), maxTractLength) THEN AbortedLoad
             ELSE PatternLoop(TractLoop(acc, repeatingPatternSize, pattern, 1),
                              models, repeatingPatternSize + 1,
                              maxRepeatingPatternSize, maxTractLength)

\* deserializeRateSet
DeserializeRateSet(root) ==
    IF ~MotifLengthOk(Len(root.Model), root.MaxMotifLength) THEN AbortedLoad
    ELSE PatternLoop([ok |-> TRUE, rates |-> EmptyRateSet, cellsRead |-> <<>>],
                     root.Model, 1, root.MaxMotifLength, root.MaxTractLength)

(***************************************************************************)
(* IndelErrorModel.                                                        *)
(***************************************************************************)
\* the name of a default-constructed IndelModelMetadata
DefaultMetaName == ""

\* IndelModelMetadata::deserialize
MetaDeserialize(modelValue) == [name |-> modelValue.name]

\* the loop over "IndelModels" of the constructor, from entry i on
RECURSIVE ModelLoop(_, _, _, _)
ModelLoop(models, i, meta, name) ==
    IF i > Len(models)
    THEN [meta |-> meta, rates |-> EmptyRateSet, ok |-> TRUE]
    ELSE LET m == MetaDeserialize(models[i])
         IN  IF m.name # name THEN ModelLoop(models, i + 1, m, name)
             ELSE LET d == DeserializeRateSet(models[i])
                  IN  [meta |-> m, rates |-> d.rates, ok |-> d.ok]

\* what a constructor call leaves when it does not return
NoModel(outcome, meta) ==
    [status |-> outcome, _meta |-> meta,
     _errorRates |-> EmptyRateSet, _candidateErrorRates |-> EmptyRateSet]

\* the end of the constructor, once _errorRates is set
BuiltModel(meta, errorRates) ==
    [status |-> "built", _meta |-> meta,
     _errorRates |-> FinalizeRates(errorRates),
     _candidateErrorRates |-> FinalizeRates(GetLogLinearIndelErrorModel)]

\* IndelErrorModel::IndelErrorModel
ConstructModel(name, filename, root) ==
    LET meta0 == [name |-> DefaultMetaName]
    IN  IF filename = ""
        THEN IF name = "logLinear" THEN BuiltModel(meta0, GetLogLinearIndelErrorModel)
             ELSE IF name = "adaptiveDefault"
                  THEN BuiltModel(meta0, GetSimplifiedAdaptiveParameters)
                  ELSE NoModel("LogicException", meta0)
        ELSE LET r == IF root.isNull
                      THEN [meta |-> meta0, rates |-> EmptyRateSet, ok |-> TRUE]
                      ELSE ModelLoop(root.IndelModels, 1, meta0, name)
             IN  IF ~r.ok THEN NoModel("assertFailed", r.meta)
                 ELSE IF r.meta.name # name THEN NoModel("LogicException", r.meta)
                 ELSE BuiltModel(r.meta, r.rates)

\* the table chosen whatever the flag says
SelectRates_IgnoreFlag(isCandidateRates, candidateErrorRates, errorRates) == errorRates

\* errorRates(isCandidateRates ? _candidateErrorRates : _errorRates)
SelectRates(isCandidateRates, candidateErrorRates, errorRates) ==
    IF isCandidateRates THEN candidateErrorRates ELSE errorRates

\* the reverse type taken to be the indel's own
ReverseIndelType_Same(indelType) == indelType

\* reverseIndelType((indelType == DELETE) ? INSERT : DELETE)
ReverseIndelType(indelType) == IF indelType = DELETE THEN INSERT ELSE DELETE

\* the baseline insertion rate alone
ComplexIndelRate_InsertionOnly(baselineInsertionErrorRate, baselineDeletionErrorRate) ==
    baselineInsertionErrorRate

\* std::max(baselineInsertionErrorRate, baselineDeletionErrorRate)
ComplexIndelRate(baselineInsertionErrorRate, baselineDeletionErrorRate) ==
    MaxRate(baselineInsertionErrorRate, baselineDeletionErrorRate)

IsSimpleIndel(indelType) == indelType = INSERT \/ indelType = DELETE

\* the getRate calls of getIndelErrorRate, in order: <<pattern size, repeat count, type>>
IndelLookups(indelType, indelReportInfo) ==
    IF ~IsSimpleIndel(indelType)
    THEN << <<1, 1, INSERT>>, <<1, 1, DELETE>> >>
    ELSE LET repeatingPatternSize == Max(indelReportInfo.repeatUnitLength, 1)
             refPatternRepeatCount == Max(indelReportInfo.refRepeatCount, 1)
             indelPatternRepeatCount == Max(indelReportInfo.indelRepeatCount, 1)
         IN  << <<repeatingPatternSize, refPatternRepeatCount, indelType>>,
                <<repeatingPatternSize, indelPatternRepeatCount,
                  ReverseIndelType(indelType)>> >>

\* getIndelErrorRate on the chosen table: the two output arguments
GetIndelErrorRate(errorRates, indelType, indelReportInfo) ==
    LET calls == IndelLookups(indelType, indelReportInfo)
        first == GetRate(errorRates, calls[1][1], calls[1][2], calls[1][3])
        second == GetRate(errorRates, calls[2][1], calls[2][2], calls[2][3])
    IN  IF ~IsSimpleIndel(indelType)
        THEN [refToIndelErrorProb |-> ComplexIndelRate(first, second),
              indelToRefErrorProb |-> ComplexIndelRate(first, second)]
        ELSE [refToIndelErrorProb |-> first, indelToRefErrorProb |-> second]

(***************************************************************************)
(* Inputs of the IndelErrorModel specification.                            *)
(***************************************************************************)
ModelNames == {"", "logLinear", "adaptiveDefault", "custom"}
FileModelNames == {"custom", "other"}
ModelFilenames == {"", "model.json"}

\* a file without "IndelModels"
NullFile == [isNull |-> TRUE, IndelModels |-> <<>>]

NameSeqs == UNION {[1..k -> FileModelNames] : k \in 0..MaxEntries}

\* parameter files: every entry of a file has the same shape (declared sizes
\* dm, dt; ml lists of tl cells each) and its own cell values
ModelFiles ==
    {NullFile} \cup
    {[isNull |-> FALSE,
      IndelModels |-> [i \in 1..Len(names) |->
                          FileEntry(names[i], i, dm, dt, [p \in 1..ml |-> tl])]] :
        names \in NameSeqs, dm \in 1..MaxMotif, dt \in 1..MaxTract,
        ml \in 0..(MaxMotif + 1), tl \in 0..(MaxTract + 1)}

\* no probability: the output arguments before a call
Unset == [ln |-> 1]

NoQuery == [active |-> FALSE, indelType |-> OTHER_TYPE, repeatUnitLength |-> 0,
            refRepeatCount |-> 0, indelRepeatCount |-> 0, isCandidateRates |-> FALSE]

(***************************************************************************)
(* IndelErrorModel: the constructor, a getIndelErrorRate call, and the     *)
(* caller taking the call's outputs.                                       *)
(***************************************************************************)
InitModel ==
    /\ modelName \in ModelNames
    /\ modelFilename \in ModelFilenames
    /\ file \in (IF modelFilename = "" THEN {NullFile} ELSE ModelFiles)
    /\ status = "unbuilt"
    /\ _meta = [name |-> DefaultMetaName]
    /\ _errorRates = EmptyRateSet
    /\ _candidateErrorRates = EmptyRateSet
    /\ query = NoQuery
    /\ refToIndelErrorProb = Unset
    /\ indelToRefErrorProb = Unset
    /\ lookups = <<>>

IdleModel ==
    /\ modelName = ""
    /\ modelFilename = ""
    /\ file = NullFile
    /\ status = "unbuilt"
    /\ _meta = [name |-> DefaultMetaName]
    /\ _errorRates = EmptyRateSet
    /\ _candidateErrorRates = EmptyRateSet
    /\ query = NoQuery
    /\ refToIndelErrorProb = Unset
    /\ indelToRefErrorProb = Unset
    /\ lookups = <<>>

Construct ==
    /\ status = "unbuilt"
    /\ LET m == ConstructModel(modelName, modelFilename, file)
       IN  /\ status' = m.status
           /\ _meta' = m._meta
           /\ _errorRates' = m._errorRates
           /\ _candidateErrorRates' = m._candidateErrorRates
    /\ UNCHANGED <<modelName, modelFilename, file, query, refToIndelErrorProb,
                   indelToRefErrorProb, lookups>>

Query ==
    /\ status = "built"
    /\ ~query.active
    /\ \E indelType \in IndelTypes, isCandidateRates \in BOOLEAN,
          repeatUnitLength \in 0..MaxUnitLength,
          refRepeatCount \in 0..MaxQueryCount,
          indelRepeatCount \in 0..MaxQueryCount :
        LET info == [repeatUnitLength |-> repeatUnitLength,
                     refRepeatCount |-> refRepeatCount,
                     indelRepeatCount |-> indelRepeatCount]
            errorRates == SelectRates(isCandidateRates, _candidateErrorRates, _errorRates)
            calls == IndelLookups(indelType, info)
        IN  /\ query' = [active |-> TRUE, indelType |-> indelType,
                         repeatUnitLength |-> repeatUnitLength,
                         refRepeatCount |-> refRepeatCount,
                         indelRepeatCount |-> indelRepeatCount,
                         isCandidateRates |-> isCandidateRates]
            /\ lookups' = calls
            /\ IF \A i \in 1..Len(calls) : LookupDefined(errorRates, calls[i][1], calls[i][2])
               THEN LET out == GetIndelErrorRate(errorRates, indelType, info)
                    IN  /\ refToIndelErrorProb' = out.refToIndelErrorProb
                        /\ indelToRefErrorProb' = out.indelToRefErrorProb
                        /\ status' = status
               ELSE \* a lookup outside the table's contract
                    /\ status' = "lookupFailed"
                    /\ UNCHANGED <<refToIndelErrorProb, indelToRefErrorProb>>
    /\ UNCHANGED <<modelName, modelFilename, file, _meta, _errorRates,
                   _candidateErrorRates>>

\* the caller has read the outputs; the next call starts afresh
Consume ==
    /\ status = "built"
    /\ query.active
    /\ query' = NoQuery
    /\ refToIndelErrorProb' = Unset
    /\ indelToRefErrorProb' = Unset
    /\ lookups' = <<>>
    /\ UNCHANGED <<modelName, modelFilename, file, status, _meta, _errorRates,
                   _candidateErrorRates>>

(***************************************************************************)
(* deserializeRateSet on one entry whose lists have lengths of their own.  *)
(***************************************************************************)
ListLengths == UNION {[1..ml -> 0..(MaxTract + 1)] : ml \in 0..(MaxMotif + 1)}

LoadInputs ==
    {FileEntry("custom", 1, dm, dt, lens) :
        dm \in 1..MaxMotif, dt \in 1..MaxTract, lens \in ListLengths}

NotLoaded == [done |-> FALSE, ok |-> FALSE, rates |-> EmptyRateSet, cellsRead |-> <<>>]

InitLoad ==
    /\ loadInput \in LoadInputs
    /\ loadResult = NotLoaded

IdleLoad ==
    /\ loadInput = FileEntry("custom", 1, 1, 1, <<>>)
    /\ loadResult = NotLoaded

Load ==
    /\ ~loadResult.done
    /\ LET d == DeserializeRateSet(loadInput)
       IN  loadResult' = [done |-> TRUE, ok |-> d.ok, rates |-> d.rates,
                          cellsRead |-> d.cellsRead]
    /\ UNCHANGED loadInput

(***************************************************************************)
(* AdaptiveIndelErrorModel: a curve and its evaluations.                   *)
(***************************************************************************)
CurveLogRates == {LogLowHpol, LogHighHpol, LogLowDinuc}

InitCurve ==
    /\ \E p \in {1, 2}, high \in (LowRepeatCount + 1)..MaxHighRepeatCount,
          lo \in CurveLogRates, hi \in CurveLogRates :
        curve = AdaptiveIndelErrorModel(p, high, [logErrorRate |-> lo],
                                        [logErrorRate |-> hi])
    /\ curveOut = {}

IdleCurve ==
    /\ curve = AdaptiveIndelErrorModel(1, SwitchPointHpol, [logErrorRate |-> LogLowHpol],
                                       [logErrorRate |-> LogHighHpol])
    /\ curveOut = {}

\* errorRate(repeatCount), for a repeat count not evaluated yet
Evaluate ==
    /\ \E repeatCount \in LowRepeatCount..MaxEvalCount :
        /\ \A e \in curveOut : e.n # repeatCount
        /\ curveOut' = curveOut \cup
                {[n |-> repeatCount, rate |-> ErrorRate(curve, repeatCount)]}
    /\ UNCHANGED curve

(***************************************************************************)
(* gvcf_block_site_record.                                                 *)
(***************************************************************************)
\* stream_stat: the number of values seen, their sum, the least and the largest
EmptyStat == [k |-> 0, sum |-> 0, min |-> 0, max |-> 0]

\* stream_stat::reset
StatReset(st) == EmptyStat

\* stream_stat::add
StatAdd(st, x) ==
    [k   |-> st.k + 1,
     sum |-> st.sum + x,
     min |-> IF st.k = 0 THEN x ELSE Min(st.min, x),
     max |-> IF st.k = 0 THEN x ELSE Max(st.max, x)]

\* static_cast<double>(opt.block_percent_tol)/100. as a fraction
FracTol(options) == [num |-> options.block_percent_tol, den |-> 100]

\* the fields of the block as one record
Block ==
    [count |-> count, pos |-> pos, block_gqx |-> block_gqx, block_dpu |-> block_dpu,
     block_dpf |-> block_dpf, isBlockGqxDefined |-> isBlockGqxDefined,
     _isNonRef |-> _isNonRef]

\* reset() that leaves pos as it is
ResetBlock_KeepsPos(b) ==
    [count |-> 0,
     block_gqx |-> StatReset(b.block_gqx),
     block_dpu |-> StatReset(b.block_dpu),
     block_dpf |-> StatReset(b.block_dpf),
     pos |-> b.pos,
     isBlockGqxDefined |-> FALSE,
     _isNonRef |-> FALSE]

\* reset(); base_t::clear() writes base-class fields only, of which pos is set here
ResetBlock(b) ==
    [count |-> 0,
     block_gqx |-> StatReset(b.block_gqx),
     block_dpu |-> StatReset(b.block_dpu),
     block_dpf |-> StatReset(b.block_dpf),
     pos |-> -1,
     isBlockGqxDefined |-> FALSE,
     _isNonRef |-> FALSE]

\* the members before the constructor's body runs: not yet set
RawBlock ==
    [count |-> 0, pos |-> 0, block_gqx |-> EmptyStat, block_dpu |-> EmptyStat,
     block_dpf |-> EmptyStat, isBlockGqxDefined |-> FALSE, _isNonRef |-> FALSE]

\* testCanSiteJoinSampleBlock: the non-reference flags agree and, when the
\* block's GQX is defined, the site's GQX is within the larger tolerance of the mean
TestCanSiteJoinSampleBlock(b, fracTol, absTol, locus) ==
    /\ locus.isNonRef = b._isNonRef
    /\ b.isBlockGqxDefined =>
        /\ locus.isGqxDefined
        /\ Abs(locus.gqx * b.block_gqx.k - b.block_gqx.sum) * fracTol.den
              <= Max(fracTol.num * b.block_gqx.sum, absTol * b.block_gqx.k * fracTol.den)

\* joinSiteToSampleBlock
JoinSiteToSampleBlock(b, locus) ==
    [count |-> b.count + 1,
     pos |-> IF b.count = 0 THEN locus.pos ELSE b.pos,
     isBlockGqxDefined |-> IF b.count = 0 THEN locus.isGqxDefined ELSE b.isBlockGqxDefined,
     _isNonRef |-> IF b.count = 0 THEN locus.isNonRef ELSE b._isNonRef,
     block_gqx |-> IF locus.isGqxDefined THEN StatAdd(b.block_gqx, locus.gqx)
                   ELSE b.block_gqx,
     block_dpu |-> StatAdd(b.block_dpu, locus.dpu),
     block_dpf |-> StatAdd(b.block_dpf, locus.dpf)]

BlockOptions == [block_percent_tol : {10, 30}, block_abs_tol : {2, 3}]

Sites ==
    [pos : 0..MaxPos, isNonRef : BOOLEAN, isGqxDefined : {TRUE},
     gqx : {30, 32, 35}, dpu : {10, 12}, dpf : {0}]
    \cup [pos : 0..MaxPos, isNonRef : BOOLEAN, isGqxDefined : {FALSE},
          gqx : {0}, dpu : {10, 12}, dpf : {0}]

SetBlock(b) ==
    /\ count' = b.count
    /\ pos' = b.pos
    /\ block_gqx' = b.block_gqx
    /\ block_dpu' = b.block_dpu
    /\ block_dpf' = b.block_dpf
    /\ isBlockGqxDefined' = b.isBlockGqxDefined
    /\ _isNonRef' = b._isNonRef

\* the state the constructor leaves
InitBlock ==
    /\ opt \in BlockOptions
    /\ frac_tol = FracTol(opt)
    /\ abs_tol = opt.block_abs_tol
    /\ LET b == ResetBlock(RawBlock)
       IN  /\ count = b.count
           /\ pos = b.pos
           /\ block_gqx = b.block_gqx
           /\ block_dpu = b.block_dpu
           /\ block_dpf = b.block_dpf
           /\ isBlockGqxDefined = b.isBlockGqxDefined
           /\ _isNonRef = b._isNonRef
    /\ lastOp = "construct"
    /\ prevCount = 0

IdleBlock ==
    /\ opt = [block_percent_tol |-> 30, block_abs_tol |-> 3]
    /\ frac_tol = FracTol(opt)
    /\ abs_tol = opt.block_abs_tol
    /\ count = 0
    /\ pos = -1
    /\ block_gqx = EmptyStat
    /\ block_dpu = EmptyStat
    /\ block_dpf = EmptyStat
    /\ isBlockGqxDefined = FALSE
    /\ _isNonRef = FALSE
    /\ lastOp = "construct"
    /\ prevCount = 0

\* the output stage joins a site: the first of a block, or one that passed the test
Join ==
    /\ count < MaxBlockCount
    /\ \E locus \in Sites :
        /\ count = 0 \/ TestCanSiteJoinSampleBlock(Block, frac_tol, abs_tol, locus)
        /\ SetBlock(JoinSiteToSampleBlock(Block, locus))
    /\ lastOp' = "join"
    /\ prevCount' = count
    /\ UNCHANGED <<opt, frac_tol, abs_tol>>

Reset ==
    /\ SetBlock(ResetBlock(Block))
    /\ lastOp' = "reset"
    /\ prevCount' = count
    /\ UNCHANGED <<opt, frac_tol, abs_tol>>

(***************************************************************************)
(* The specifications.                                                     *)
(***************************************************************************)
Init == InitModel /\ IdleLoad /\ IdleCurve /\ IdleBlock
Next ==
    \/ Construct /\ UNCHANGED <<loadVars, curveVars, blockVars>>
    \/ Query /\ UNCHANGED <<loadVars, curveVars, blockVars>>
    \/ Consume /\ UNCHANGED <<loadVars, curveVars, blockVars>>
Spec == Init /\ [][Next]_vars

InitLoadSpec == IdleModel /\ InitLoad /\ IdleCurve /\ IdleBlock
NextLoad == Load /\ UNCHANGED <<modelVars, curveVars, blockVars>>
SpecLoad == InitLoadSpec /\ [][NextLoad]_vars

InitCurveSpec == IdleModel /\ IdleLoad /\ InitCurve /\ IdleBlock
NextCurve == Evaluate /\ UNCHANGED <<modelVars, loadVars, blockVars>>
SpecCurve == InitCurveSpec /\ [][NextCurve]_vars

InitBlockSpec == IdleModel /\ IdleLoad /\ IdleCurve /\ InitBlock
NextBlock ==
    \/ Join /\ UNCHANGED <<modelVars, loadVars, curveVars>>
    \/ Reset /\ UNCHANGED <<modelVars, loadVars, curveVars>>
SpecBlock == InitBlockSpec /\ [][NextBlock]_vars

(***************************************************************************)
(* The claims.                                                             *)
(***************************************************************************)
Built == status = "built"
Constructed == status # "unbuilt"
Asked == Built /\ query.active

\* the table a call in progress reads
AskedRates == IF query.isCandidateRates THEN _candidateErrorRates ELSE _errorRates

AskedInfo ==
    [repeatUnitLength |-> query.repeatUnitLength,
     refRepeatCount |-> query.refRepeatCount,
     indelRepeatCount |-> query.indelRepeatCount]

FileHasModel(name) ==
    \E i \in 1..Len(file.IndelModels) : file.IndelModels[i].name = name

\* C1: the constructor ends in a LogicException, for every model name, when
\* (a) no file is given and the name is neither "logLinear" nor
\* "adaptiveDefault", or (b) a file is given and none of its "IndelModels"
\* (a missing or empty list included) is named modelName.
C1_UnknownModelIsFatal ==
    (/\ Constructed
     /\ \/ modelFilename = "" /\ modelName \notin {"logLinear", "adaptiveDefault"}
        \/ modelFilename # "" /\ ~FileHasModel(modelName))
    => status = "LogicException"

\* the model a constructor call with modelName = "logLinear" and no file builds
LogLinearModel == ConstructModel("logLinear", "", NullFile)

\* C2: whatever the model built, a call with isCandidateRates = true returns
\* the pair a model built with modelName = "logLinear" returns, and a call with
\* isCandidateRates = false the pair read from the scoring table.
C2_CandidateTableIsLogLinear ==
    Asked =>
        LET expected ==
                GetIndelErrorRate(
                    IF query.isCandidateRates THEN LogLinearModel._errorRates
                    ELSE _errorRates,
                    query.indelType, AskedInfo)
        IN  /\ refToIndelErrorProb = expected.refToIndelErrorProb
            /\ indelToRefErrorProb = expected.indelToRefErrorProb

\* a candidate call on a model loaded from a file, answered differently from
\* what the scoring table holds
C2_Witness ==
    /\ Asked
    /\ query.isCandidateRates
    /\ modelName = "custom"
    /\ _errorRates.rates # {}
    /\ refToIndelErrorProb #
         GetIndelErrorRate(_errorRates, query.indelType, AskedInfo).refToIndelErrorProb

\* C3: for a simple indel, refToIndelErrorProb is the rate of the indel's own
\* type at (max(repeatUnitLength,1), max(refRepeatCount,1)) and
\* indelToRefErrorProb the rate of the opposite type at
\* (max(repeatUnitLength,1), max(indelRepeatCount,1)); no lookup of a call has a
\* pattern size or a repeat count of 0.
C3_SimpleIndelLookups ==
    /\ query.active =>
          \A i \in 1..Len(lookups) : lookups[i][1] >= 1 /\ lookups[i][2] >= 1
    /\ (Asked /\ query.indelType \in {INSERT, DELETE}) =>
          LET size == IF query.repeatUnitLength >= 1 THEN query.repeatUnitLength ELSE 1
              refCount == IF query.refRepeatCount >= 1 THEN query.refRepeatCount ELSE 1
              indelCount == IF query.indelRepeatCount >= 1 THEN query.indelRepeatCount ELSE 1
              opposite == IF query.indelType = INSERT THEN DELETE ELSE INSERT
          IN  /\ refToIndelErrorProb = GetRate(AskedRates, size, refCount, query.indelType)
              /\ indelToRefErrorProb = GetRate(AskedRates, size, indelCount, opposite)

\* an insertion with a unit length and a reference repeat count of 0, scored on
\* a table loaded from a file, whose two directions differ
C3_Witness ==
    /\ Asked
    /\ query.indelType = INSERT
    /\ query.repeatUnitLength = 0
    /\ query.refRepeatCount = 0
    /\ query.indelRepeatCount = 2
    /\ ~query.isCandidateRates
    /\ modelName = "custom"
    /\ refToIndelErrorProb # indelToRefErrorProb

\* C4: for a complex indel, with either table, both outputs are the larger of
\* the insertion and the deletion rate at (1,1), whatever the allele's repeat
\* unit length and repeat counts.
C4_ComplexIndelBaseline ==
    (Asked /\ query.indelType \notin {INSERT, DELETE}) =>
        LET ins == GetRate(AskedRates, 1, 1, INSERT)
            del == GetRate(AskedRates, 1, 1, DELETE)
        IN  /\ refToIndelErrorProb \in {ins, del}
            /\ refToIndelErrorProb.ln >= ins.ln
            /\ refToIndelErrorProb.ln >= del.ln
            /\ indelToRefErrorProb = refToIndelErrorProb

\* a complex indel in a dinucleotide context, scored on a table whose baseline
\* insertion and deletion rates differ
C4_Witness ==
    /\ Asked
    /\ query.indelType = OTHER_TYPE
    /\ ~query.isCandidateRates
    /\ query.repeatUnitLength = 2
    /\ query.refRepeatCount = 2
    /\ GetRate(_errorRates, 1, 1, INSERT) # GetRate(_errorRates, 1, 1, DELETE)

Loaded == loadResult.done /\ loadResult.ok

\* the cells <<pattern size, tract length>> of the loaded entry that hold a
\* whole number of repeat units
WholeCells ==
    {c \in (1..loadInput.MaxMotifLength) \X (1..(MaxTract + 2)) :
        /\ c[1] <= Len(loadInput.Model)
        /\ c[2] <= Len(loadInput.Model[c[1]])
        /\ c[2] % c[1] = 0}

C6_AnySizeMismatchIsFatal ==
    (/\ loadResult.done
     /\ \/ Len(loadInput.Model) # loadInput.MaxMotifLength
        \/ \E p \in 1..Len(loadInput.Model) :
              Len(loadInput.Model[p]) # loadInput.MaxTractLength)
    => ~loadResult.ok

\* C6 amended: a load fails, and returns no table, exactly when the "Model"
\* list's length differs from MaxMotifLength or one of the lists is longer
\* than MaxTractLength; a list shorter than MaxTractLength is loaded.
C6_SizeMismatchIsFatal ==
    loadResult.done =>
        /\ loadResult.ok <=>
              /\ Len(loadInput.Model) = loadInput.MaxMotifLength
              /\ \A p \in 1..Len(loadInput.Model) :
                    Len(loadInput.Model[p]) <= loadInput.MaxTractLength
        /\ ~loadResult.ok => loadResult.rates = EmptyRateSet

\* a load that failed on a list longer than MaxTractLength alone
C6_Witness ==
    /\ loadResult.done
    /\ ~loadResult.ok
    /\ Len(loadInput.Model) = loadInput.MaxMotifLength
    /\ \E p \in 1..Len(loadInput.Model) :
          Len(loadInput.Model[p]) > loadInput.MaxTractLength

\* the entry of a table at a key (as a set: empty when the key is absent)
EntriesAt(rs, p, n) == {e \in rs.rates : e.p = p /\ e.n = n}
Keys(rs) == {<<e.p, e.n>> : e \in rs.rates}

\* C7: the logLinear table holds pattern size 1 only, at the repeat counts
\* 1..16; the log rate at repeat count n is (1-f)*ln(5e-5) + f*ln(3e-4) with
\* f = min(n-1,15)/15: the low rate at 1, the high rate at 16, non-decreasing
\* in between; the insertion rate is the deletion rate throughout.
C7_LogLinearRamp ==
    (Built /\ modelName = "logLinear" /\ modelFilename = "") =>
        /\ Keys(_errorRates) = {1} \X (1..16)
        /\ Cardinality(_errorRates.rates) = 16
        /\ \A e \in _errorRates.rates :
            /\ e.ins = e.del
            /\ Abs(15 * e.ins.ln
                    - ((16 - e.n) * LogLowErrorRate + (e.n - 1) * LogHighErrorRate)) < 15
            /\ e.n = 1 => e.ins.ln = LogLowErrorRate
            /\ e.n = 16 => e.ins.ln = LogHighErrorRate
        /\ \A e1, e2 \in _errorRates.rates : e1.n <= e2.n => e1.ins.ln <= e2.ins.ln

\* a model built with modelName = "logLinear" whose ramp rises
C7_Witness ==
    /\ Built
    /\ modelName = "logLinear"
    /\ modelFilename = ""
    /\ \E e1, e2 \in _errorRates.rates : e1.n = 1 /\ e2.n = 16 /\ e1.ins.ln < e2.ins.ln

\* the switch point, the low and the high log rate of a pattern size
SwitchPointOf(p) == IF p = 1 THEN SwitchPointHpol ELSE SwitchPointDinuc
LogLowOf(p) == IF p = 1 THEN LogLowHpol ELSE LogLowDinuc
LogHighOf(p) == IF p = 1 THEN LogHighHpol ELSE LogHighDinuc

\* C8: the adaptiveDefault table holds pattern size 1 at the repeat counts
\* 1..16 and pattern size 2 at 1..9 and nothing else; the entry at repeat
\* count 1 is the rate 8e-3; the entries at 2..switch point lie on the curve,
\* the one at the switch point being the high rate (4.5e-2, 1.8e-2); a lookup
\* at or above the switch point returns the high rate; the insertion rate is
\* the deletion rate throughout.
C8_AdaptiveDefaultTable ==
    (Built /\ modelName = "adaptiveDefault" /\ modelFilename = "") =>
        /\ Keys(_errorRates) = ({1} \X (1..16)) \cup ({2} \X (1..9))
        /\ Cardinality(_errorRates.rates) = 25
        /\ \A e \in _errorRates.rates :
            LET sp == SwitchPointOf(e.p)
            IN  /\ e.ins = e.del
                /\ e.n = 1 => e.ins.ln = LogNonStrRate
                /\ e.n >= 2 =>
                      Abs((sp - 2) * e.ins.ln
                            - ((sp - e.n) * LogLowOf(e.p) + (e.n - 2) * LogHighOf(e.p)))
                        < sp - 2
                /\ e.n = sp => e.ins.ln = LogHighOf(e.p)
        /\ \A p \in {1, 2}, type \in {INSERT, DELETE} :
              \A n \in SwitchPointOf(p)..(SwitchPointOf(p) + PlateauProbe) :
                  GetRate(_errorRates, p, n, type).ln = LogHighOf(p)

\* a model built with modelName = "adaptiveDefault", holding both switch points
C8_Witness ==
    /\ Built
    /\ modelName = "adaptiveDefault"
    /\ modelFilename = ""
    /\ EntriesAt(_errorRates, 1, 16) # {}
    /\ EntriesAt(_errorRates, 2, 9) # {}

C10_ResetGivesEmptyBlock ==
    lastOp \in {"construct", "reset"} =>
        /\ count = 0
        /\ pos = -1
        /\ isBlockGqxDefined = FALSE
        /\ _isNonRef = FALSE
        /\ block_gqx.k = 0 /\ block_gqx.sum = 0
        /\ block_dpu.k = 0 /\ block_dpu.sum = 0
        /\ block_dpf.k = 0 /\ block_dpf.sum = 0
        /\ frac_tol = [num |-> opt.block_percent_tol, den |-> 100]
        /\ abs_tol = opt.block_abs_tol

\* a reset() of a block of two or more sites
C10_Witness ==
    /\ lastOp = "reset"
    /\ prevCount >= 2
    /\ count = 0

====
